---- MODULE Spec2Model ----
(***************************************************************************)
(* State-machine model of the Orange signal-processing widgets             *)
(* (orangecontrib/signalprocessing/widgets).  Each widget is modelled by   *)
(* its handlers; one behaviour is about one widget instance, chosen in the *)
(* initial state of the specification that covers it.                      *)
(*                                                                         *)
(* Numbers.  Python floats that carry fractions of a second are modelled   *)
(* as exact rationals <<numerator, denominator>> (segment sizes of the     *)
(* feature widgets, the sampling rates of RMS and FFT, the window and hop  *)
(* of STFT, the frequencies); the other sampling rates, the cutoffs and    *)
(* the overlap percentages are integers.  int(x) is                        *)
(* truncation toward zero.  Arithmetic is exact: the binary rounding of    *)
(* the float products is not modelled.                                     *)
(***************************************************************************)
EXTENDS Integers, Sequences, FiniteSets, TLC

VARIABLES
    widget,             \* which widget class the instance is
    time_series,        \* self.time_series / self.data: None or a Table
    warnings,           \* the Msg names currently shown by self.Warning
    output,             \* the last value sent on the widget's output channel
    last,               \* the last handler invocation: its inputs and outcome
    selected_features,  \* feature widgets: self.selected_features
    feature_inputs,     \* feature widgets: self.feature_inputs (name -> text)
    enabled,            \* feature widgets: items with Qt.ItemIsEnabled set
    selection,          \* feature widgets: feature_list.selectedItems()
    current_feature,    \* feature widgets: self.current_feature
    fft_data,           \* FFT: self.fft_data, None or the magnitude bins
    selected_range,     \* EnvelopAnalysis: self.selected_range
    freqs,              \* EnvelopAnalysis: self.freqs
    data_list,          \* plotters: self.data_list, a list of (id[0], table)
    sampling_rate_list, \* FFTPlotter: self.sampling_rate_list, (id[0], rate)
    input_filter,       \* plotters: the items of self.input_filter
    latest              \* plotters: per input id, what was last delivered

vars == <<widget, time_series, warnings, output, last, selected_features,
          feature_inputs, enabled, selection, current_feature, fft_data,
          selected_range, freqs, data_list, sampling_rate_list,
          input_filter, latest>>

featureVars == <<selected_features, feature_inputs, enabled, selection,
                 current_feature>>

plotVars == <<fft_data, selected_range, freqs>>

plotterVars == <<data_list, sampling_rate_list, input_filter, latest>>

-----------------------------------------------------------------------------
(* Bounds of the model.                                                    *)

\* longest sample buffer supplied on an input
MaxLen == 5
\* longest selected_features list the modelled user builds
MaxSel == 2
\* longest sample buffer supplied to a feature widget whose list is in use
MaxFeatLen == 2
\* longest sample buffer supplied to the Butterworth widget
MaxFiltLen == 10
\* longest sample buffer supplied to the FFT widget
MaxFftLen == 6

-----------------------------------------------------------------------------
(* Python values.                                                          *)

None == <<>>

\* a one-column Table whose column X[:, 0] is the sequence col
Table(col) == <<col>>

\* bool(table): None and a Table with no rows are both falsy
Truthy(t) == t # None /\ Len(t[1]) > 0

\* the sample buffer 1, 2, ..., n (sample i has value i)
Ramp(n) == [i \in 1..n |-> i]

Buffers == {None} \cup {Table(Ramp(n)) : n \in 0..MaxLen}

\* int(a / b) for b > 0: truncation toward zero
Trunc(a, b) == IF a >= 0 THEN a \div b ELSE -((-a) \div b)

\* list(range(0, stop, step)) for step # 0, as a sequence of start indices
PyRange(stop, step) ==
    IF step > 0
    THEN IF stop <= 0 THEN <<>>
         ELSE [k \in 1..(((stop - 1) \div step) + 1) |-> (k - 1) * step]
    ELSE IF stop >= 0 THEN <<>>
         ELSE [k \in 1..(((-stop - 1) \div (-step)) + 1) |-> (k - 1) * step]

\* data[i:j] for 0-based i >= 0 (a negative j counts from the end)
PySlice(data, i, j) ==
    LET n  == Len(data)
        jj == IF j < 0 THEN (IF j + n < 0 THEN 0 ELSE j + n)
              ELSE (IF j > n THEN n ELSE j)
        ii == IF i > n THEN n ELSE i
    IN  IF jj <= ii THEN <<>> ELSE [k \in 1..(jj - ii) |-> data[ii + k]]

\* the ids Orange passes with a value of a multiple input: tuples, of which
\* the plotters use id[0] (id[1] here, sequences being 1-based)
InputIds == {<<1>>, <<2>>}

\* the plotters' state after __init__: both lists and the item list empty,
\* and nothing delivered yet on any input
PlotterInit ==
    /\ data_list = <<>>
    /\ sampling_rate_list = <<>>
    /\ input_filter = <<>>
    /\ latest = [data |-> [id \in InputIds |-> "unset"],
                 rate |-> [id \in InputIds |-> "unset"]]

-----------------------------------------------------------------------------
(* Feature widgets: TimeDomainFeatures and FrequencyDomainFeatures.        *)

FeatureWidgets == {"TimeDomainFeatures", "FrequencyDomainFeatures"}

\* keys of self.feature_descriptions, the items of feature_list
feature_descriptions(w) ==
    IF w = "TimeDomainFeatures"
    THEN {"RootMeanSquared", "PeakValue", "Variance", "CrestFactor", "Kurtosis",
          "ClearanceFactor", "ImpulseFactor", "LineIntegral", "PeakToPeak",
          "ShannonEntropy", "Skewness"}
    ELSE {"PeakValueFFT", "EnergyFFT", "PowerSpectralDensity"}

\* the items the modelled user clicks (a subset of the catalog)
ClickItems(w) ==
    IF w = "TimeDomainFeatures"
    THEN {"RootMeanSquared", "CrestFactor", "ShannonEntropy"}
    ELSE {"PeakValueFFT", "EnergyFFT", "PowerSpectralDensity"}

\* the default text of the QLineEdit update_feature_description creates
DefaultInput(w, feature) ==
    IF w = "TimeDomainFeatures"
    THEN (IF feature = "ShannonEntropy" THEN "10" ELSE "0")
    ELSE "256"

\* features for which update_feature_description stores an input widget
HasInput(w, feature) ==
    IF w = "TimeDomainFeatures"
    THEN feature \in {"ShannonEntropy", "CrestFactor"}
    ELSE feature = "PowerSpectralDensity"

\* the features whose branch of compute_features reads self.feature_inputs
InputLookups(w) ==
    IF w = "TimeDomainFeatures" THEN {"ShannonEntropy"}
    ELSE {"PowerSpectralDensity"}

\* an update_feature_description that stores no input widget
update_feature_description_none(w, inputs, feature) == inputs

\* self.feature_inputs after update_feature_description ran for feature
update_feature_description(w, inputs, feature) ==
    IF HasInput(w, feature)
    THEN [f \in (DOMAIN inputs) \cup {feature} |->
            IF f = feature THEN DefaultInput(w, feature) ELSE inputs[f]]
    ELSE inputs

-----------------------------------------------------------------------------
(* Segmentation (segment_signal of both feature widgets).                  *)

\* segment_samples = int(segment_size * sampling_rate)
SegmentSamples(segment_size, sampling_rate) ==
    Trunc(segment_size[1] * sampling_rate, segment_size[2])

\* step_size = int(segment_samples * (1 - overlap_rate / 100))
StepSize(segment_samples, overlap_rate) ==
    Trunc(segment_samples * (100 - overlap_rate), 100)

\* the off-by-one variant of the comprehension's range: the last full window
\* is lost
segment_starts_short(n, segment_samples, step_size) ==
    PyRange(n - segment_samples, step_size)

\* the range over every index of the data: trailing windows shorter than
\* segment_samples are produced too
segment_starts_partial(n, segment_samples, step_size) ==
    PyRange(n, step_size)

\* the start indices range(0, len(data) - segment_samples + 1, step_size)
segment_starts(n, segment_samples, step_size) ==
    PyRange(n - segment_samples + 1, step_size)

\* segment_signal: raised is TRUE when range() raises ValueError (step 0)
segment_signal(data, segment_size, overlap_rate, sampling_rate) ==
    LET segment_samples == SegmentSamples(segment_size, sampling_rate)
        step_size       == StepSize(segment_samples, overlap_rate)
        starts          == segment_starts(Len(data), segment_samples, step_size)
    IN  IF step_size = 0
        THEN [raised |-> TRUE, segment_samples |-> segment_samples,
              step_size |-> step_size, starts |-> <<>>, segments |-> <<>>]
        ELSE [raised |-> FALSE, segment_samples |-> segment_samples,
              step_size |-> step_size, starts |-> starts,
              segments |-> [k \in 1..Len(starts) |->
                  PySlice(data, starts[k], starts[k] + segment_samples)]]

\* a check that lets an overlap rate of 100 % or more through
InvalidParamsNoUpper(segment_size, overlap_rate, sampling_rate) ==
    \/ segment_size[1] <= 0
    \/ overlap_rate < 0
    \/ sampling_rate < 1

\* the check at the top of compute_features
InvalidParams(segment_size, overlap_rate, sampling_rate) ==
    \/ segment_size[1] <= 0
    \/ overlap_rate < 0
    \/ overlap_rate >= 100
    \/ sampling_rate < 1

-----------------------------------------------------------------------------
(* Feature computation (compute_features of both feature widgets).         *)

\* a chain that lacks the CrestFactor / EnergyFFT branch
ChainFeaturesMissing(w) ==
    IF w = "TimeDomainFeatures"
    THEN {"RootMeanSquared", "PeakValue", "Variance", "Kurtosis",
          "ClearanceFactor", "ImpulseFactor", "LineIntegral", "PeakToPeak",
          "ShannonEntropy", "Skewness"}
    ELSE {"PeakValueFFT", "PowerSpectralDensity"}

\* the names the if/elif chain of compute_features has a branch for
ChainFeatures(w) ==
    IF w = "TimeDomainFeatures"
    THEN {"RootMeanSquared", "PeakValue", "Variance", "CrestFactor", "Kurtosis",
          "ClearanceFactor", "ImpulseFactor", "LineIntegral", "PeakToPeak",
          "ShannonEntropy", "Skewness"}
    ELSE {"PeakValueFFT", "EnergyFFT", "PowerSpectralDensity"}

\* int(text) as <<value>>, None when int() raises ValueError
int_text(text) ==
    CASE text = "0"   -> <<0>>
      [] text = "1"   -> <<1>>
      [] text = "2"   -> <<2>>
      [] text = "10"  -> <<10>>
      [] text = "256" -> <<256>>
      [] OTHER        -> None

\* the features computed as peak / mean-like denominator
RatioFeatures == {"CrestFactor", "ClearanceFactor", "ImpulseFactor"}

\* the denominator of a ratio feature (rms, mean(sqrt(|x|)), mean(|x|)) is 0
\* exactly on a segment of zeros; numpy then divides 0.0 by 0.0
ZeroDenominator(feature, segment) ==
    /\ feature \in RatioFeatures
    /\ \A i \in 1..Len(segment) : segment[i] = 0

\* the segment length scipy.signal.welch works with: an nperseg above the
\* input length is replaced by the input length (with a UserWarning)
welch_nperseg(nperseg, segment) ==
    IF nperseg > Len(segment) THEN Len(segment) ELSE nperseg

\* the scalar a branch appends: the feature applied to the segment
\* (symbolic).  nan tells that the value is 0.0 / 0.0; nperseg is the length
\* welch worked with (0 for the other features).
FeatureValue(feature, segment) ==
    [feature |-> feature, segment |-> segment,
     nan     |-> ZeroDenominator(feature, segment),
     nperseg |-> IF feature = "PowerSpectralDensity"
                 THEN welch_nperseg(int_text(feature_inputs[feature])[1],
                                    segment)
                 ELSE 0]

\* a branch that raises ValueError: np.max of the empty half-spectrum of a
\* one-sample segment (fft_values = np.abs(fft(segment))[:len(segment) // 2]);
\* int() of a text that is no integer; np.histogram with bins < 1; welch
\* with nperseg < 1
FeatureRaises(w, feature, segment) ==
    \/ /\ w = "FrequencyDomainFeatures"
       /\ feature = "PeakValueFFT"
       /\ Len(segment) \div 2 = 0
    \/ /\ feature \in {"ShannonEntropy", "PowerSpectralDensity"}
       /\ feature \in ChainFeatures(w)
       /\ \/ int_text(feature_inputs[feature]) = None
          \/ int_text(feature_inputs[feature])[1] < 1

\* the inner loop: one row, the values of the selected features in order
RECURSIVE segment_features(_, _, _)
segment_features(w, segment, features) ==
    IF features = <<>> THEN <<>>
    ELSE LET feature == Head(features)
             rest    == segment_features(w, segment, Tail(features))
         IN  IF feature \in ChainFeatures(w)
             THEN <<FeatureValue(feature, segment)>> \o rest
             ELSE rest

\* the value sent on Outputs.features_data: a Table (its columns and rows
\* are recorded in last.columns and last.rows by the invocation that sent it)
FeaturesTable(features, rows) == <<"Table">>

\* TRUE when some branch raises while the rows are computed
RowsRaise(w, segments, features) ==
    \E k \in 1..Len(segments) : \E j \in 1..Len(features) :
        FeatureRaises(w, features[j], segments[k])

\* the outer loop: all_features
all_features(w, segments, features) ==
    [k \in 1..Len(segments) |-> segment_features(w, segments[k], features)]

-----------------------------------------------------------------------------
(* Inputs of the feature widgets' handlers.                                *)

\* the tables supplied to a feature widget whose feature list is in use
FeatBuffers == {None} \cup {Table(Ramp(n)) : n \in 0..MaxFeatLen}

\* the line-edit texts at "Compute Features", as
\* <<sampling rate (Hz), segment size (s, a rational), overlap rate (%)>>
FeatParams ==
    { <<1, <<1, 1>>, 0>>,  <<1, <<2, 1>>, 50>>,
      <<1, <<1, 1>>, 50>>, <<1, <<1, 2>>, 0>>,
      <<0, <<1, 1>>, 0>>,  <<1, <<0, 1>>, 0>>,
      <<1, <<1, 1>>, 100>>, <<1, <<1, 1>>, -1>> }

-----------------------------------------------------------------------------
(* Handlers of the feature widgets.                                        *)

\* @Inputs.time_series set_data: stores the table (or None)
FeatSetData(data) ==
    /\ widget \in FeatureWidgets
    /\ time_series' = data
    /\ last' = [op |-> "set_data"]
    /\ UNCHANGED <<plotVars, plotterVars, widget, warnings, output, featureVars>>

\* the user clicks an enabled, unselected item: itemSelectionChanged runs
\* update_feature_description with that item selected
ItemSelected(feature) ==
    /\ widget \in FeatureWidgets
    /\ feature \in feature_descriptions(widget)
    /\ feature \in enabled
    /\ selection # <<feature>>
    /\ selection' = <<feature>>
    /\ feature_inputs' = update_feature_description(widget, feature_inputs, feature)
    /\ current_feature' = <<feature>>
    /\ last' = [op |-> "update_feature_description"]
    /\ UNCHANGED <<plotVars, plotterVars, widget, time_series, warnings, output, selected_features, enabled>>

\* the user Ctrl-clicks the selected item (SingleSelection allows it):
\* update_feature_description finds selectedItems() empty and does nothing
ItemDeselected ==
    /\ widget \in FeatureWidgets
    /\ selection # None
    /\ selection' = None
    /\ last' = [op |-> "update_feature_description"]
    /\ UNCHANGED <<plotVars, plotterVars, widget, time_series, warnings, output, selected_features,
                   feature_inputs, enabled, current_feature>>

\* selected_item.setFlags(selected_item.flags() & ~Qt.ItemIsEnabled)
disable_item(items, item) == items \ {item}

\* "Confirm Feature": select_feature.  With current_feature set and nothing
\* selected, selectedItems()[0] raises IndexError after the append.
select_feature ==
    /\ widget \in FeatureWidgets
    /\ Len(selected_features) < MaxSel
    /\ IF current_feature = None
       THEN /\ last' = [op |-> "select_feature", outcome |-> "noop"]
            /\ UNCHANGED featureVars
       ELSE /\ selected_features' = Append(selected_features, current_feature[1])
            /\ IF selection = None
               THEN /\ last' = [op |-> "select_feature", outcome |-> "IndexError"]
                    /\ UNCHANGED <<feature_inputs, enabled, selection, current_feature>>
               ELSE /\ enabled' = disable_item(enabled, selection[1])
                    /\ selection' = None
                    /\ current_feature' = None
                    /\ last' = [op |-> "select_feature", outcome |-> "confirmed"]
                    /\ UNCHANGED feature_inputs
    /\ UNCHANGED <<plotVars, plotterVars, widget, time_series, warnings, output>>

\* "Reset": reset_features.  The time-domain widget acts only when the list
\* is non-empty; the frequency-domain widget always.
reset_features ==
    /\ widget \in FeatureWidgets
    /\ IF widget = "TimeDomainFeatures" /\ Len(selected_features) = 0
       THEN UNCHANGED <<selected_features, enabled>>
       ELSE /\ selected_features' = <<>>
            /\ enabled' = feature_descriptions(widget)
    /\ last' = [op |-> "reset_features"]
    /\ UNCHANGED <<plotVars, plotterVars, widget, time_series, warnings, output, feature_inputs,
                   selection, current_feature>>

\* TRUE when Orange decides whether Domain / Table construction succeeds:
\* with no rows np.array([]) is one-dimensional, and with a name selected
\* twice the Domain has two variables of one name
TableDependsOnOrange(features, rows) ==
    \/ rows = <<>>
    \/ \E i, j \in 1..Len(features) : i # j /\ features[i] = features[j]

\* "Compute Features": compute_features.  table_ok is the outcome of
\* Domain(...) and Table(domain, np.array(all_features)) where it is the
\* library's choice.
\* last.segment_samples, last.step_size and last.segments hold what
\* segment_signal computed, when the invocation got that far.
compute_features(sampling_rate, segment_size, overlap_rate, table_ok) ==
    /\ widget \in FeatureWidgets
    /\ LET call == [op |-> "compute_features", sampling_rate |-> sampling_rate,
                    segment_size |-> segment_size, overlap_rate |-> overlap_rate,
                    n |-> IF Truthy(time_series) THEN Len(time_series[1]) ELSE 0,
                    segment_samples |-> 0, step_size |-> 0,
                    segments |-> <<>>, columns |-> <<>>, rows |-> <<>>]
           seg  == segment_signal(time_series[1], segment_size, overlap_rate,
                                  sampling_rate)
           rows == all_features(widget, seg.segments, selected_features)
       IN  IF ~Truthy(time_series)
           THEN /\ last' = [call EXCEPT !.op = "compute_features",
                                        !.n = 0] @@ [outcome |-> "noop"]
                /\ UNCHANGED <<warnings, output>>
           ELSE IF InvalidParams(segment_size, overlap_rate, sampling_rate)
           THEN /\ warnings' = {"warning_invalid_params"}
                /\ last' = call @@ [outcome |-> "warning_invalid_params"]
                /\ UNCHANGED output
           ELSE IF seg.raised
           THEN /\ warnings' = {}
                /\ last' = [call EXCEPT !.segment_samples = seg.segment_samples,
                                        !.step_size = seg.step_size]
                              @@ [outcome |-> "ValueError"]
                /\ UNCHANGED output
           ELSE IF RowsRaise(widget, seg.segments, selected_features)
           THEN /\ warnings' = {}
                /\ last' = [call EXCEPT !.segment_samples = seg.segment_samples,
                                        !.step_size = seg.step_size,
                                        !.segments = seg.segments]
                              @@ [outcome |-> "ValueError"]
                /\ UNCHANGED output
           ELSE IF TableDependsOnOrange(selected_features, rows) /\ ~table_ok
           THEN /\ warnings' = {}
                /\ last' = [call EXCEPT !.segment_samples = seg.segment_samples,
                                        !.step_size = seg.step_size,
                                        !.segments = seg.segments]
                              @@ [outcome |-> "TableError"]
                /\ UNCHANGED output
           ELSE /\ warnings' = {}
                /\ output' = FeaturesTable(selected_features, rows)
                /\ last' = [call EXCEPT !.segment_samples = seg.segment_samples,
                                        !.step_size = seg.step_size,
                                        !.segments = seg.segments,
                                        !.columns = selected_features,
                                        !.rows = rows]
                              @@ [outcome |-> "sent"]
    /\ UNCHANGED <<plotVars, plotterVars, widget, time_series, featureVars>>

FeatInit ==
    /\ widget \in FeatureWidgets
    /\ time_series = None
    /\ warnings = {}
    /\ output = None
    /\ last = [op |-> "init"]
    /\ selected_features = <<>>
    /\ feature_inputs = <<>>
    /\ enabled = feature_descriptions(widget)
    /\ selection = None
    /\ current_feature = None
    /\ fft_data = None
    /\ selected_range = None
    /\ freqs = None
    /\ PlotterInit

FeatNext ==
    \/ \E data \in FeatBuffers : FeatSetData(data)
    \/ \E feature \in ClickItems(widget) : ItemSelected(feature)
    \/ ItemDeselected
    \/ select_feature
    \/ reset_features
    \/ \E p \in FeatParams, ok \in BOOLEAN :
           compute_features(p[1], p[2], p[3], ok)

\* the feature widgets
SpecFeat == FeatInit /\ [][FeatNext]_vars

\* the user types text into the line edit that update_feature_description
\* has just created for the selected item (feature_inputs holds the
\* QLineEdit; reset_features takes it off the panel again)
EditInput(text) ==
    /\ widget \in FeatureWidgets
    /\ last.op \in {"update_feature_description", "edit_input"}
    /\ selection # None
    /\ HasInput(widget, selection[1])
    /\ feature_inputs[selection[1]] # text
    /\ feature_inputs' = [feature_inputs EXCEPT ![selection[1]] = text]
    /\ last' = [op |-> "edit_input"]
    /\ UNCHANGED <<plotVars, plotterVars, widget, time_series, warnings, output,
                   selected_features, enabled, selection, current_feature>>

\* the tables, list items, input texts and line-edit texts of a session that
\* works with the ratio features and the features that have an input
ValBuffers == {Table(<<0, 0>>), Table(<<0, 1>>), Table(<<1, 2>>)}
ValItems(w) ==
    IF w = "TimeDomainFeatures"
    THEN RatioFeatures \cup {"ShannonEntropy"}
    ELSE {"EnergyFFT", "PowerSpectralDensity"}
ValTexts == {"", "0", "1", "256"}
ValParams == { <<1, <<1, 1>>, 0>>, <<1, <<2, 1>>, 50>> }

ValNext ==
    \/ \E data \in ValBuffers : FeatSetData(data)
    \/ \E feature \in ValItems(widget) : ItemSelected(feature)
    \/ \E text \in ValTexts : EditInput(text)
    \/ select_feature
    \/ reset_features
    \/ \E p \in ValParams, ok \in BOOLEAN :
           compute_features(p[1], p[2], p[3], ok)

\* the feature widgets in such a session
SpecFeatVal == FeatInit /\ [][ValNext]_vars

-----------------------------------------------------------------------------
(* Properties of the feature widgets (checked under SpecFeat).             *)

ComputeRan == last.op = "compute_features" /\ last.outcome # "noop"

\* C2: the table compute_features sends is rectangular: one row per segment,
\* every row holds exactly len(selected_features) values, and the value in
\* column j of the row of segment k is the j-th selected feature computed on
\* segment k (column order is selection order).
C2_RectangularTable ==
    (last.op = "compute_features" /\ last.outcome = "sent") =>
        /\ last.columns = selected_features
        /\ Len(last.rows) = Len(last.segments)
        /\ \A k \in 1..Len(last.rows) :
              /\ Len(last.rows[k]) = Len(selected_features)
              /\ \A j \in 1..Len(selected_features) :
                    last.rows[k][j] =
                        FeatureValue(selected_features[j], last.segments[k])

\* C2 witness: a table of at least two rows and two different columns was sent
C2_Witness ==
    /\ last.op = "compute_features" /\ last.outcome = "sent"
    /\ Len(last.rows) >= 2
    /\ Len(selected_features) >= 2
    /\ selected_features[1] # selected_features[2]

\* C3 (as claimed): selected_features holds each feature name at most once,
\* whatever sequence of select / deselect / Confirm / Reset / Compute events
\* has happened.
C3_NoDuplicateFeature ==
    \A i, j \in 1..Len(selected_features) :
        i # j => selected_features[i] # selected_features[j]

\* C4 (as claimed): a compute_features invocation whose segment_samples is
\* <= 0, whose overlap is outside [0, 100) or whose sampling rate is < 1 ends
\* with the invalid-parameters warning and sends nothing.
C4_InvalidParameterReported ==
    (/\ ComputeRan
     /\ \/ SegmentSamples(last.segment_size, last.sampling_rate) <= 0
        \/ last.overlap_rate < 0
        \/ last.overlap_rate >= 100
        \/ last.sampling_rate < 1)
    => /\ last.outcome = "warning_invalid_params"
       /\ "warning_invalid_params" \in warnings

\* the step is a compute_features invocation that read invalid segmentation
\* parameters (the line edits are read only while a non-empty table is
\* stored: without one compute_features returns at once)
InvalidInvocation ==
    /\ Truthy(time_series)
    /\ last'.op = "compute_features"
    /\ \/ last'.segment_size[1] <= 0
       \/ last'.overlap_rate < 0
       \/ last'.overlap_rate >= 100
       \/ last'.sampling_rate < 1

\* what the claim says of such an invocation: the warning is raised, no
\* table is sent, and the selection, the inputs and the stored table stay
InvalidRejected ==
    /\ last'.outcome = "warning_invalid_params"
    /\ "warning_invalid_params" \in warnings'
    /\ output' = output
    /\ selected_features' = selected_features
    /\ feature_inputs' = feature_inputs
    /\ time_series' = time_series

\* C28: every compute_features invocation with segment_size <= 0,
\* overlap_rate < 0, overlap_rate >= 100 or sampling_rate < 1 raises the
\* invalid-parameters warning, sends no table and leaves selected_features,
\* feature_inputs and the stored time series unchanged.
C28_InvalidRejected == [][InvalidInvocation => InvalidRejected]_vars

\* invalid parameters were rejected with features selected, an input stored
\* and an earlier table on the output
C28_Witness ==
    /\ last.op = "compute_features"
    /\ last.outcome = "warning_invalid_params"
    /\ selected_features # <<>>
    /\ DOMAIN feature_inputs # {}
    /\ output # None

\* C25 (as claimed): in both feature widgets an item of the list is disabled
\* if and only if its name is in selected_features, and after Reset
\* selected_features is empty and every item is enabled.
C25_DisabledIffSelected ==
    /\ \A feature \in feature_descriptions(widget) :
           (feature \notin enabled) <=>
               (\E j \in 1..Len(selected_features) :
                    selected_features[j] = feature)
    /\ last.op = "reset_features" =>
           /\ selected_features = <<>>
           /\ enabled = feature_descriptions(widget)

\* C26: every feature of selected_features whose computation reads
\* feature_inputs (ShannonEntropy, PowerSpectralDensity) has an entry there,
\* so compute_features never looks up a missing input.
C26_SelectedInputStored ==
    \A j \in 1..Len(selected_features) :
        selected_features[j] \in InputLookups(widget) =>
            selected_features[j] \in DOMAIN feature_inputs

\* compute_features sent a table with a column of such a feature
C26_Witness ==
    /\ ComputeRan
    /\ last.outcome = "sent"
    /\ \E j \in 1..Len(last.columns) : last.columns[j] \in InputLookups(widget)

\* feature is selected and the last invocation of compute_features ran the
\* feature loop on at least one segment
FeatureEvaluated(feature) ==
    /\ ComputeRan
    /\ last.segments # <<>>
    /\ \E j \in 1..Len(selected_features) : selected_features[j] = feature

\* C16 (as claimed): a ratio feature (CrestFactor, ClearanceFactor,
\* ImpulseFactor) evaluated on a segment where its denominator is zero makes
\* compute_features end with an error: no table is sent.
C16_ZeroDenominatorFails ==
    (\E feature \in RatioFeatures :
        /\ FeatureEvaluated(feature)
        /\ \E k \in 1..Len(last.segments) :
               ZeroDenominator(feature, last.segments[k]))
    => last.outcome # "sent"

\* C17 (as claimed): compute_features with ShannonEntropy selected and a bin
\* count below 1 reports an error to the user (a warning is shown, the
\* handler does not end in an uncaught exception) and sends no table.
C17_BadBinCountReported ==
    (/\ FeatureEvaluated("ShannonEntropy")
     /\ int_text(feature_inputs["ShannonEntropy"]) # None
     /\ int_text(feature_inputs["ShannonEntropy"])[1] < 1)
    => /\ last.outcome \notin {"sent", "ValueError", "TableError"}
       /\ warnings # {}

\* C18 (as claimed): compute_features with PowerSpectralDensity selected and
\* an nperseg above the segment length reports an error and sends no table.
C18_LongNpersegRejected ==
    (/\ FeatureEvaluated("PowerSpectralDensity")
     /\ int_text(feature_inputs["PowerSpectralDensity"]) # None
     /\ int_text(feature_inputs["PowerSpectralDensity"])[1]
            > last.segment_samples)
    => /\ last.outcome # "sent"
       /\ warnings # {}

-----------------------------------------------------------------------------
(* The RMS widget.                                                         *)

\* window_size = int(segment_size * sampling_rate), sampling_rate a rational
WindowSize(segment_size, sampling_rate) ==
    Trunc(segment_size * sampling_rate[1], sampling_rate[2])

\* step_size = int(window_size * (1 - overlap_rate / 100)), at least 1
rms_step_size(window_size, overlap_rate) ==
    IF StepSize(window_size, overlap_rate) < 1
    THEN 1
    ELSE StepSize(window_size, overlap_rate)

\* compute_rms on a one-column table: the window is cut down to the column
\* length (with the window_size_large warning), then one RMS value per start
\* in range(0, len(column) - window_size + 1, step_size).  raised is TRUE
\* when range() raises ValueError (step 0).
compute_rms(column, window_size, step_size) ==
    LET large  == window_size > Len(column)
        window == IF large THEN Len(column) ELSE window_size
        starts == PyRange(Len(column) - window + 1, step_size)
    IN  IF step_size = 0
        THEN [raised |-> TRUE, large |-> large, window_size |-> window,
              segments |-> <<>>]
        ELSE [raised |-> FALSE, large |-> large, window_size |-> window,
              segments |-> [k \in 1..Len(starts) |->
                  PySlice(column, starts[k], starts[k] + window)]]

\* @Inputs.data set_data: a falsy table is stored as None
RmsSetData(data) ==
    /\ widget = "RMS"
    /\ time_series' = IF Truthy(data) THEN data ELSE None
    /\ last' = [op |-> "set_data"]
    /\ UNCHANGED <<plotVars, plotterVars, widget, warnings, output, featureVars>>

\* "Compute": commit.  bad_text is TRUE when a line-edit text does not parse
\* (int() / float() raise ValueError).  Warnings are never cleared.
commit(segment_size, sampling_rate, overlap_rate, bad_text) ==
    /\ widget = "RMS"
    /\ LET call   == [op |-> "commit", segment_size |-> segment_size,
                      sampling_rate |-> sampling_rate,
                      overlap_rate |-> overlap_rate, bad_text |-> bad_text,
                      n |-> IF Truthy(time_series) THEN Len(time_series[1]) ELSE 0,
                      segment_samples |-> 0, step_size |-> 0,
                      segments |-> <<>>]
           window == WindowSize(segment_size, sampling_rate)
           step   == rms_step_size(window, overlap_rate)
           rms    == compute_rms(time_series[1], window, step)
       IN  IF ~Truthy(time_series)
           THEN /\ output' = None
                /\ last' = call @@ [outcome |-> "sent_None"]
                /\ UNCHANGED warnings
           ELSE IF bad_text \/ rms.raised
           THEN /\ warnings' = warnings \cup
                       (IF ~bad_text /\ rms.large THEN {"window_size_large"} ELSE {})
                       \cup {"warning"}
                /\ last' = [call EXCEPT !.segment_samples =
                                            IF bad_text THEN 0 ELSE window,
                                        !.step_size =
                                            IF bad_text THEN 0 ELSE step]
                              @@ [outcome |-> "warning"]
                /\ UNCHANGED output
           ELSE /\ warnings' = warnings \cup
                       (IF rms.large THEN {"window_size_large"} ELSE {})
                /\ output' = <<"Table">>
                /\ last' = [call EXCEPT !.segment_samples = window,
                                        !.step_size = step,
                                        !.segments = rms.segments]
                              @@ [outcome |-> "sent"]
    /\ UNCHANGED <<plotVars, plotterVars, widget, time_series, featureVars>>

-----------------------------------------------------------------------------
(* Segmentation: the feature widgets with nothing selected, and RMS.       *)

\* sampling rates (Hz), segment sizes (s) and overlap rates (%) that pass
\* the check of compute_features
SegRates == 1..3
SegSizes == {<<1, 2>>, <<1, 1>>, <<3, 2>>, <<2, 1>>, <<MaxLen + 1, 1>>}
SegOverlaps == {0, 25, 50, 75, 99}

\* RMS line-edit values: whole seconds, rate in Hz (a rational), whole percent
RmsSizes == {1, 2, MaxLen + 1}
RmsRates == {<<1, 2>>, <<1, 1>>, <<2, 1>>}
RmsOverlaps == {0, 50, 99}

SegInit ==
    /\ widget \in FeatureWidgets \cup {"RMS"}
    /\ time_series = None
    /\ warnings = {}
    /\ output = None
    /\ last = [op |-> "init"]
    /\ selected_features = <<>>
    /\ feature_inputs = <<>>
    /\ enabled = IF widget \in FeatureWidgets
                 THEN feature_descriptions(widget) ELSE {}
    /\ selection = None
    /\ current_feature = None
    /\ fft_data = None
    /\ selected_range = None
    /\ freqs = None
    /\ PlotterInit

SegNext ==
    \/ \E data \in Buffers : FeatSetData(data)
    \/ \E r \in SegRates, s \in SegSizes, o \in SegOverlaps, ok \in BOOLEAN :
           compute_features(r, s, o, ok)
    \/ \E data \in Buffers : RmsSetData(data)
    \/ \E s \in RmsSizes, r \in RmsRates, o \in RmsOverlaps, bad \in BOOLEAN :
           commit(s, r, o, bad)

\* segmentation in the feature widgets and in RMS
SpecSeg == SegInit /\ [][SegNext]_vars

RmsInit ==
    /\ SegInit
    /\ widget = "RMS"

RmsNext ==
    \/ \E data \in Buffers : RmsSetData(data)
    \/ \E s \in RmsSizes, r \in RmsRates, o \in RmsOverlaps, bad \in BOOLEAN :
           commit(s, r, o, bad)

\* the RMS widget alone
SpecRms == RmsInit /\ [][RmsNext]_vars

-----------------------------------------------------------------------------
(* Properties of segmentation (checked under SpecSeg and SpecRms).         *)

\* compute_features got past its parameter check and called segment_signal
SegmentSignalCalled ==
    /\ last.op = "compute_features"
    /\ last.outcome \notin {"noop", "warning_invalid_params"}

\* commit parsed its inputs and called compute_rms
ComputeRmsCalled ==
    /\ last.op = "commit"
    /\ last.outcome # "sent_None"
    /\ ~last.bad_text

\* C1: with N samples, segment_samples = s >= 1 and step_size = d >= 1,
\* segment_signal returns floor((N - s) / d) + 1 segments when N >= s and
\* none when N < s.
C1_SegmentCount ==
    (/\ SegmentSignalCalled
     /\ last.outcome \in {"sent", "TableError"}
     /\ last.segment_samples >= 1
     /\ last.step_size >= 1)
    => Len(last.segments) =
          IF last.n >= last.segment_samples
          THEN ((last.n - last.segment_samples) \div last.step_size) + 1
          ELSE 0

\* C1 witness: several segments with a step >= 2 that does not divide N - s
C1_Witness ==
    /\ SegmentSignalCalled
    /\ last.outcome = "sent"
    /\ last.step_size >= 2
    /\ last.n > last.segment_samples
    /\ (last.n - last.segment_samples) % last.step_size # 0
    /\ Len(last.segments) >= 2

\* C21: every segment segment_signal returns is the full window
\* [start, start + segment_samples) of the data with start = i * step_size
\* for the i-th segment (i = 0, 1, ...), so the starts increase strictly, and
\* start + segment_samples <= len(data): no shorter trailing window is
\* returned.  (The samples of the tables are 1, 2, ..., so that a segment
\* shows where it was cut.)
C21_FullWindowsInOrder ==
    SegmentSignalCalled =>
       \A k \in 1..Len(last.segments) :
          /\ last.step_size >= 1
          /\ Len(last.segments[k]) = last.segment_samples
          /\ last.segments[k] =
                 [i \in 1..last.segment_samples |->
                     (k - 1) * last.step_size + i]
          /\ (k - 1) * last.step_size + last.segment_samples <= last.n

\* C21 witness: two or more segments were returned and samples are left
\* over after the last one, too few for another window
C21_Witness ==
    /\ SegmentSignalCalled
    /\ last.outcome = "sent"
    /\ Len(last.segments) >= 2
    /\ (Len(last.segments) - 1) * last.step_size + last.segment_samples
           < last.n
    /\ Len(last.segments) * last.step_size < last.n

\* C5 (as claimed): when segment_samples exceeds the number of samples the
\* operation produces zero segments and completes with a result and no error
\* or warning, in the feature widgets and in RMS.
C5_ZeroSegmentsNoError ==
    /\ (SegmentSignalCalled /\ last.segment_samples > last.n) =>
           /\ last.outcome = "sent"
           /\ Len(last.segments) = 0
           /\ warnings = {}
    /\ (ComputeRmsCalled /\ last.segment_samples > last.n) =>
           /\ last.outcome = "sent"
           /\ Len(last.segments) = 0
           /\ warnings = {}

\* C6 (as claimed): whenever the parameters are accepted with
\* segment_samples >= 1, the step used between segment starts is >= 1.
C6_StepAtLeastOne ==
    /\ (SegmentSignalCalled /\ last.segment_samples >= 1) => last.step_size >= 1
    /\ (ComputeRmsCalled /\ last.segment_samples >= 1) => last.step_size >= 1

-----------------------------------------------------------------------------
(* The Butterworth widget.  nyquist = 0.5 * sampling_rate, so a comparison *)
(* of a cutoff c with nyquist is written on 2 * c and sampling_rate.       *)

FilterTypes == {"Low-pass", "High-pass", "Band-pass"}

\* the tables supplied to the Butterworth widget
FiltBuffers == {None} \cup {Table(Ramp(n)) : n \in 0..MaxFiltLen}

\* the low-pass check with > for >=: a cutoff equal to nyquist passes
low_pass_check_strict(cutoff, sampling_rate) == 2 * cutoff > sampling_rate

\* Low-pass: cutoff >= nyquist raises warning_low_pass
low_pass_check(cutoff, sampling_rate) == 2 * cutoff >= sampling_rate

\* High-pass: cutoff < 1 raises warning_high_pass
high_pass_check(cutoff) == cutoff < 1

\* Band-pass: low_cutoff >= nyquist and high_cutoff < 1 raises
\* warning_invalid_params
band_pass_check(low_cutoff, high_cutoff, sampling_rate) ==
    2 * low_cutoff >= sampling_rate /\ high_cutoff < 1

\* the length check with < for <=: a signal of exactly 3 * order samples passes
data_length_check_strict(n, order) == n < order * 3

\* len(data_col) <= order * 3 raises warning_data_length
data_length_check(n, order) == n <= order * 3

\* sampling_rate < 2 raises warning_sampling_rate
sampling_rate_check(sampling_rate) == sampling_rate < 2

\* the warnings raised by the checks of apply_filter (every check is
\* evaluated; each failing one also sets error_check_fail)
check_warnings(filter_type, cutoff, low_cutoff, high_cutoff, order, sampling_rate, n) ==
    (IF filter_type = "Low-pass" /\ low_pass_check(cutoff, sampling_rate)
     THEN {"warning_low_pass"} ELSE {})
    \cup
    (IF filter_type = "High-pass" /\ high_pass_check(cutoff)
     THEN {"warning_high_pass"} ELSE {})
    \cup
    (IF filter_type = "Band-pass"
        /\ band_pass_check(low_cutoff, high_cutoff, sampling_rate)
     THEN {"warning_invalid_params"} ELSE {})
    \cup
    (IF data_length_check(n, order) THEN {"warning_data_length"} ELSE {})
    \cup
    (IF sampling_rate_check(sampling_rate)
     THEN {"warning_sampling_rate"} ELSE {})

\* apply_filter without "if error_check_fail: return"
error_check_fail_ignored(raised) == FALSE

\* "if error_check_fail: return": TRUE when some check raised its warning
error_check_fail(raised) == raised # {}

\* a normalised cutoff c / nyquist lies strictly between 0 and 1
WnInRange(cutoff, sampling_rate) == cutoff > 0 /\ 2 * cutoff < sampling_rate

\* scipy.signal.butter raises ValueError ("Digital filter critical
\* frequencies must be 0 < Wn < 1") for a normalised cutoff outside (0, 1).
\* For a band with both edges in range and low >= high the outcome depends
\* on the scipy release (ValueError, or coefficients of a meaningless
\* filter): strict is that choice.
butter_raises(filter_type, cutoff, low_cutoff, high_cutoff, sampling_rate, strict) ==
    IF filter_type = "Band-pass"
    THEN \/ ~WnInRange(low_cutoff, sampling_rate)
         \/ ~WnInRange(high_cutoff, sampling_rate)
         \/ (low_cutoff >= high_cutoff /\ strict)
    ELSE ~WnInRange(cutoff, sampling_rate)

\* number of coefficients of the designed filter: order + 1, twice the order
\* plus one for a band-pass
ntaps(filter_type, order) ==
    IF filter_type = "Band-pass" THEN 2 * order + 1 ELSE order + 1

\* scipy.signal.filtfilt raises ValueError when the signal is not longer than
\* its default padding, 3 * ntaps samples
filtfilt_raises(filter_type, order, n) == n <= 3 * ntaps(filter_type, order)

\* @Inputs.time_series set_data
FiltSetData(data) ==
    /\ widget = "Butterworth"
    /\ time_series' = data
    /\ last' = [op |-> "set_data"]
    /\ UNCHANGED <<plotVars, plotterVars, widget, warnings, output, featureVars>>

\* "Apply Filter": apply_filter with the current settings.  designed, applied
\* and sent tell how far the invocation got: butter returned, filtfilt
\* returned, Outputs.filtered_data.send was called.
apply_filter(filter_type, cutoff, low_cutoff, high_cutoff, order, sampling_rate, strict) ==
    /\ widget = "Butterworth"
    /\ LET n      == IF Truthy(time_series) THEN Len(time_series[1]) ELSE 0
           raised == check_warnings(filter_type, cutoff, low_cutoff,
                                    high_cutoff, order, sampling_rate, n)
           call   == [op |-> "apply_filter", filter_type |-> filter_type,
                      cutoff |-> cutoff, low_cutoff |-> low_cutoff,
                      high_cutoff |-> high_cutoff, order |-> order,
                      sampling_rate |-> sampling_rate, n |-> n,
                      error_check_fail |-> FALSE, designed |-> FALSE,
                      applied |-> FALSE, sent |-> FALSE]
       IN  IF ~Truthy(time_series)
           THEN /\ last' = call @@ [outcome |-> "noop"]
                /\ UNCHANGED <<warnings, output>>
           ELSE IF error_check_fail(raised)
           THEN /\ warnings' = raised
                /\ last' = [call EXCEPT !.error_check_fail = TRUE]
                              @@ [outcome |-> "checks_failed"]
                /\ UNCHANGED output
           ELSE IF butter_raises(filter_type, cutoff, low_cutoff, high_cutoff,
                                 sampling_rate, strict)
           THEN /\ warnings' = raised \cup {"warning_invalid_params"}
                /\ last' = [call EXCEPT !.error_check_fail = raised # {}]
                              @@ [outcome |-> "ValueError"]
                /\ UNCHANGED output
           ELSE IF filtfilt_raises(filter_type, order, n)
           THEN /\ warnings' = raised \cup {"warning_invalid_params"}
                /\ last' = [call EXCEPT !.error_check_fail = raised # {},
                                        !.designed = TRUE]
                              @@ [outcome |-> "ValueError"]
                /\ UNCHANGED output
           ELSE /\ warnings' = raised
                /\ output' = <<"Table">>
                /\ last' = [call EXCEPT !.error_check_fail = raised # {},
                                        !.designed = TRUE, !.applied = TRUE,
                                        !.sent = TRUE]
                              @@ [outcome |-> "sent"]
    /\ UNCHANGED <<plotVars, plotterVars, widget, time_series, featureVars>>

\* the settings: cutoffs and sampling rate in Hz, the filter order
FiltCutoffs == {0, 10, 20, 50, 60}
FiltRates == {1, 100}
FiltOrders == {1, 2}

FiltInit ==
    /\ widget = "Butterworth"
    /\ time_series = None
    /\ warnings = {}
    /\ output = None
    /\ last = [op |-> "init"]
    /\ selected_features = <<>>
    /\ feature_inputs = <<>>
    /\ enabled = {}
    /\ selection = None
    /\ current_feature = None
    /\ fft_data = None
    /\ selected_range = None
    /\ freqs = None
    /\ PlotterInit

\* The settings a filter type does not read keep their defaults (cutoff 1,
\* low_cutoff 1, high_cutoff 10); strict is a choice only where butter's
\* outcome depends on it.
FiltNext ==
    \/ \E data \in FiltBuffers : FiltSetData(data)
    \/ \E ft \in {"Low-pass", "High-pass"}, c \in FiltCutoffs,
          p \in FiltOrders, r \in FiltRates :
           apply_filter(ft, c, 1, 10, p, r, TRUE)
    \/ \E lo \in FiltCutoffs, hi \in FiltCutoffs, p \in FiltOrders,
          r \in FiltRates, strict \in BOOLEAN :
           /\ strict \/ (lo >= hi /\ WnInRange(lo, r) /\ WnInRange(hi, r))
           /\ apply_filter("Band-pass", 1, lo, hi, p, r, strict)

\* the Butterworth widget
SpecFilter == FiltInit /\ [][FiltNext]_vars

-----------------------------------------------------------------------------
(* Properties of the Butterworth widget (checked under SpecFilter).        *)

\* apply_filter ran on a non-empty table
FilterRan == last.op = "apply_filter" /\ last.outcome # "noop"

\* C7: apply_filter with a low-pass cutoff at or above Nyquist
\* (sampling_rate / 2) raises the low-pass warning and sends no output.
C7_LowPassRejected ==
    (/\ FilterRan
     /\ last.filter_type = "Low-pass"
     /\ 2 * last.cutoff >= last.sampling_rate)
    => /\ "warning_low_pass" \in warnings
       /\ ~last.sent

\* C7 witness: cutoff 60 Hz at 100 Hz on a long enough signal is rejected
\* by the low-pass check alone
C7_Witness ==
    /\ FilterRan
    /\ last.filter_type = "Low-pass"
    /\ last.cutoff = 60 /\ last.sampling_rate = 100
    /\ last.n > 3 * last.order
    /\ warnings = {"warning_low_pass"}
    /\ ~last.sent

\* C8 (as claimed): apply_filter with a degenerate band (low >= high, or
\* low >= Nyquist, or high < 1 Hz) raises the invalid-parameters warning and
\* sends no output.
C8_DegenerateBandRejected ==
    (/\ FilterRan
     /\ last.filter_type = "Band-pass"
     /\ \/ last.low_cutoff >= last.high_cutoff
        \/ 2 * last.low_cutoff >= last.sampling_rate
        \/ last.high_cutoff < 1)
    => /\ "warning_invalid_params" \in warnings
       /\ ~last.sent

\* C9: for every filter type, apply_filter on a signal of at most 3 * order
\* samples raises the data-length warning and sends no output; an output is
\* sent only for a signal longer than 3 * order.
C9_InsufficientData ==
    /\ (FilterRan /\ last.n <= 3 * last.order) =>
           /\ "warning_data_length" \in warnings
           /\ ~last.sent
    /\ (FilterRan /\ last.sent) => last.n > 3 * last.order

\* C9 witness: a signal of exactly 3 * order samples, all else valid
C9_Witness ==
    /\ FilterRan
    /\ last.n = 3 * last.order
    /\ warnings = {"warning_data_length"}
    /\ ~last.sent

\* some check of apply_filter fails on the inputs of the last invocation
AnyCheckFails ==
    \/ last.filter_type = "Low-pass" /\ 2 * last.cutoff >= last.sampling_rate
    \/ last.filter_type = "High-pass" /\ last.cutoff < 1
    \/ /\ last.filter_type = "Band-pass"
       /\ 2 * last.low_cutoff >= last.sampling_rate
       /\ last.high_cutoff < 1
    \/ last.n <= 3 * last.order
    \/ last.sampling_rate < 2

\* C10: whenever a check of apply_filter fails, the invocation stops before
\* filter design: no filter is designed or applied and nothing is sent.
C10_ValidationBeforeDesign ==
    (FilterRan /\ AnyCheckFails)
    => /\ last.error_check_fail
       /\ ~last.designed
       /\ ~last.applied
       /\ ~last.sent

\* C10 witness: an invocation in which two checks failed, after an earlier
\* invocation had sent a filtered table
C10_Witness ==
    /\ FilterRan
    /\ AnyCheckFails
    /\ Cardinality(warnings) >= 2
    /\ output = <<"Table">>
    /\ ~last.sent

\* the invocation passed every check of apply_filter, so that butter was
\* called with its settings
ReachedDesign == FilterRan /\ ~last.error_check_fail

\* C11 (as claimed): every setting that passes the checks of apply_filter and
\* reaches filter design has its cutoffs strictly between 0 and Nyquist and,
\* for a band-pass, low_cutoff < high_cutoff; a high-pass cutoff at or above
\* Nyquist and a low-pass cutoff <= 0 are stopped by the checks.
C11_DesignedCutoffsInRange ==
    ReachedDesign
    => IF last.filter_type = "Band-pass"
       THEN /\ WnInRange(last.low_cutoff, last.sampling_rate)
            /\ WnInRange(last.high_cutoff, last.sampling_rate)
            /\ last.low_cutoff < last.high_cutoff
       ELSE WnInRange(last.cutoff, last.sampling_rate)

-----------------------------------------------------------------------------
(* The FFT widget, on a one-column table.  A sampling rate is a rational   *)
(* <<numerator, denominator>>, a frequency likewise.                       *)

\* a numpy array of one column, as its sequence of rows
Array(rows) == <<rows>>

\* the tables supplied to the FFT widget
FftBuffers == {None} \cup {Table(Ramp(n)) : n \in 0..MaxFftLen}

\* np.abs(np.fft.fft(segment))[k]: the magnitude of DFT bin k of the segment
Magnitude(segment, k) == [segment |-> segment, k |-> k]

\* np.fft.fft raises ValueError ("Invalid number of FFT data points (0)")
\* on a segment of no samples
fft_raises(segment) == Len(segment) < 1

\* compute_fft on the column: the first len(fft_column) // 2 magnitudes of
\* the DFT of column[start_idx:end_idx]
compute_fft(data, start_idx, end_idx) ==
    LET segment == PySlice(data[1], start_idx, end_idx)
    IN  [raised     |-> fft_raises(segment),
         segment    |-> segment,
         fft_values |-> IF fft_raises(segment) THEN <<>>
                        ELSE [i \in 1..(Len(segment) \div 2) |->
                                 Magnitude(segment, i - 1)]]

\* np.fft.fftfreq(n, d = 1 / rate) computes val = 1.0 / (n * d) first:
\* ZeroDivisionError for n = 0
fftfreq_raises(n) == n = 0

\* np.fft.fftfreq(n, d = 1 / rate) for n > 0: k / (n * d) for the bins
\* k = 0..(n - 1) // 2, then the negative frequencies
fftfreq(n, rate) ==
    [i \in 1..n |-> IF i - 1 <= (n - 1) \div 2
                    THEN <<(i - 1) * rate[1], n * rate[2]>>
                    ELSE <<(i - 1 - n) * rate[1], n * rate[2]>>]

\* FFT.update_plot: the frequency axis drawn for self.fft_data,
\* fftfreq(len(fft_data) * 2, d = 1 / rate)[:len(fft_data)]
update_plot_freqs(array, rate) ==
    PySlice(fftfreq(Len(array[1]) * 2, rate), 0, Len(array[1]))

\* the line edits whose text int() / float() cannot parse ("ok": none)
BadTexts == {"ok", "segment_size", "sampling_rate"}

\* FFT.commit on a non-empty table, lines 173-198: raised are the warnings
\* it raises, computed tells that compute_fft returned (self.fft_data is
\* assigned and both outputs are sent), N is the length of the transformed
\* segment (-1 when compute_fft was not called) and freqs the frequency axis
\* update_plot draws.  Only ValueError is caught.
FFT_commit_try(data, start_segment_size, end_segment_size, sampling_rate, bad_text) ==
    LET n         == Len(data[1])
        start_idx == Trunc(start_segment_size * sampling_rate[1],
                           sampling_rate[2])
        end_raw   == Trunc(end_segment_size * sampling_rate[1],
                           sampling_rate[2])
        large     == end_raw > n
        end_idx   == IF large THEN n ELSE end_raw
        res       == compute_fft(data, start_idx, end_idx)
        late      == IF large THEN {"window_size_large"} ELSE {}
        stopped   == [computed |-> FALSE, N |-> -1, fft_values |-> <<>>,
                      freqs |-> <<>>]
    IN  IF bad_text # "ok"
        THEN stopped @@ [raised |-> {"warning"}, outcome |-> "ValueError"]
        ELSE IF start_segment_size >= end_segment_size
        THEN stopped @@ [raised |-> {"invalid_range"},
                         outcome |-> "invalid_range"]
        ELSE IF res.raised
        THEN [stopped EXCEPT !.N = 0]
                 @@ [raised |-> late \cup {"warning"}, outcome |-> "ValueError"]
        ELSE IF fftfreq_raises(Len(res.fft_values) * 2)
        THEN [computed |-> TRUE, N |-> Len(res.segment),
              fft_values |-> res.fft_values, freqs |-> <<>>,
              raised |-> late, outcome |-> "ZeroDivisionError"]
        ELSE [computed |-> TRUE, N |-> Len(res.segment),
              fft_values |-> res.fft_values,
              freqs |-> update_plot_freqs(Array(res.fft_values), sampling_rate),
              raised |-> late, outcome |-> "sent"]

\* the state change of FFT.commit: warnings are added to those shown (commit
\* never clears them); a computed spectrum is stored and sent
FFT_commit_effect(data, start_segment_size, end_segment_size, sampling_rate, bad_text) ==
    LET r == FFT_commit_try(data, start_segment_size, end_segment_size,
                            sampling_rate, bad_text)
    IN  /\ warnings' = warnings \cup r.raised
        /\ fft_data' = IF r.computed THEN Array(r.fft_values) ELSE fft_data
        /\ output' = IF r.computed THEN Table(r.fft_values) ELSE output
        /\ last' = [op |-> "commit",
                    start_segment_size |-> start_segment_size,
                    end_segment_size |-> end_segment_size,
                    sampling_rate |-> sampling_rate, bad_text |-> bad_text,
                    n |-> Len(data[1]), N |-> r.N, sent |-> r.computed,
                    raised |-> r.raised, freqs |-> r.freqs,
                    outcome |-> r.outcome]

\* "Apply" (and a changed setting with auto_send): FFT.commit
FFT_commit(start_segment_size, end_segment_size, sampling_rate, bad_text) ==
    /\ widget = "FFT"
    /\ IF Truthy(time_series)
       THEN FFT_commit_effect(time_series, start_segment_size,
                              end_segment_size, sampling_rate, bad_text)
       ELSE /\ output' = None
            /\ last' = [op |-> "commit", outcome |-> "sent_None"]
            /\ UNCHANGED <<warnings, fft_data>>
    /\ UNCHANGED <<plotterVars, widget, time_series, selected_range, freqs, featureVars>>

\* @Inputs.data set_data: a truthy table is stored, the sampling-rate text is
\* parsed for the validators (an uncaught ValueError when it does not parse)
\* and, with auto_send, commit runs on the new table
FFT_set_data(data, auto_send, start_segment_size, end_segment_size, sampling_rate, bad_text) ==
    /\ widget = "FFT"
    /\ IF ~Truthy(data)
       THEN /\ time_series' = None
            /\ last' = [op |-> "set_data", outcome |-> "cleared"]
            /\ UNCHANGED <<warnings, fft_data, output>>
       ELSE /\ time_series' = data
            /\ IF bad_text = "sampling_rate"
               THEN /\ last' = [op |-> "set_data", outcome |-> "ValueError"]
                    /\ UNCHANGED <<warnings, fft_data, output>>
               ELSE IF auto_send
               THEN FFT_commit_effect(data, start_segment_size,
                                      end_segment_size, sampling_rate,
                                      bad_text)
               ELSE /\ last' = [op |-> "set_data", outcome |-> "stored"]
                    /\ UNCHANGED <<warnings, fft_data, output>>
    /\ UNCHANGED <<plotterVars, widget, selected_range, freqs, featureVars>>

\* the settings: segment bounds in seconds, sampling rates in Hz
FftStarts == {1, 2}
FftEnds == {2, 3, MaxFftLen}
FftRates == {<<1, 2>>, <<1, 1>>}

FftInit ==
    /\ widget = "FFT"
    /\ time_series = None
    /\ warnings = {}
    /\ output = None
    /\ last = [op |-> "init"]
    /\ selected_features = <<>>
    /\ feature_inputs = <<>>
    /\ enabled = {}
    /\ selection = None
    /\ current_feature = None
    /\ fft_data = None
    /\ selected_range = None
    /\ freqs = None
    /\ PlotterInit

\* A text that does not parse has no value: the settings then stay at their
\* defaults (1 s, 1 s, 1 Hz)
FftSettings ==
    {<<s, e, r, "ok">> : s \in FftStarts, e \in FftEnds, r \in FftRates}
    \cup {<<1, 1, <<1, 1>>, b>> : b \in BadTexts}

FftNext ==
    \/ \E data \in FftBuffers, auto_send \in BOOLEAN, t \in FftSettings :
           /\ auto_send \/ (t[1] = 1 /\ t[2] = 1 /\ t[3] = <<1, 1>>)
           /\ FFT_set_data(data, auto_send, t[1], t[2], t[3], t[4])
    \/ \E t \in FftSettings : FFT_commit(t[1], t[2], t[3], t[4])

\* the FFT widget
SpecFFT == FftInit /\ [][FftNext]_vars

-----------------------------------------------------------------------------
(* Properties of the FFT widget (checked under SpecFFT).                   *)

\* compute_fft was called in the last invocation of commit
ComputeFftCalled == last.op = "commit" /\ last.outcome # "sent_None" /\ last.N >= 0

\* the segment that the last invocation of commit transformed
LastSegment ==
    PySlice(time_series[1],
            Trunc(last.start_segment_size * last.sampling_rate[1],
                  last.sampling_rate[2]),
            Trunc(last.end_segment_size * last.sampling_rate[1],
                  last.sampling_rate[2]))

\* C12 (as claimed): for a segment of N samples the spectrum has exactly
\* N div 2 magnitude bins, the first N div 2 DFT bins in order; for N = 1
\* commit sends an empty spectrum and ends without error; for N = 0 it ends
\* with an error and sends no spectrum.
C12_SpectrumBins ==
    ComputeFftCalled =>
       /\ last.N = 0 => (~last.sent /\ "warning" \in last.raised)
       /\ last.N >= 1 =>
              /\ last.sent
              /\ output = Table([i \in 1..(last.N \div 2) |->
                                    Magnitude(LastSegment, i - 1)])
       /\ last.N = 1 => (output = Table(<<>>) /\ last.outcome = "sent")

\* C13 (as claimed): for a transformed segment of N >= 2 samples, the
\* frequency drawn for bin k, 0 <= k < N div 2, is k * sampling_rate / N.
C13_BinFrequency ==
    (ComputeFftCalled /\ last.N >= 2 /\ last.outcome = "sent") =>
       /\ Len(last.freqs) = last.N \div 2
       /\ \A k \in 0..(last.N \div 2 - 1) :
              last.freqs[k + 1][1] * last.N * last.sampling_rate[2]
                  = k * last.sampling_rate[1] * last.freqs[k + 1][2]

-----------------------------------------------------------------------------
(* The STFT widget.  window_size and hop_size are rationals (seconds), fs  *)
(* is an integer (Hz).                                                     *)

\* window_size_samples = int(self.window_size * self.fs), and the same for
\* hop_samples
stft_samples(seconds, fs) == Trunc(seconds[1] * fs, seconds[2])

\* the first test with "and" for "or": one bad count alone passes
incorrect_params_both(hop_samples, window_size_samples) ==
    hop_samples <= 1 /\ window_size_samples <= 1

\* hop_samples <= 1 or window_size_samples <= 1 raises
\* warning_incorrect_params
incorrect_params(hop_samples, window_size_samples) ==
    hop_samples <= 1 \/ window_size_samples <= 1

\* the warning of the if/elif chain of update_plot, None when the chain
\* reaches its else branch
stft_check(hop_samples, window_size_samples, fs) ==
    IF incorrect_params(hop_samples, window_size_samples)
    THEN <<"warning_incorrect_params">>
    ELSE IF window_size_samples <= 1 /\ fs <= 1
    THEN <<"warning_window_fs">>
    ELSE IF fs <= 1
    THEN <<"warning_low_fs">>
    ELSE None

\* compute_stft builds gaussian(window_size_samples,
\* std = int(window_size_samples / 3))
gaussian_std(window_size_samples) == Trunc(window_size_samples, 3)

\* compute_stft raises: ShortTimeFFT rejects a hop longer than the window
\* (ValueError).  For a window of fewer than 3 samples the Gaussian has
\* std = int(window_size_samples / 3) = 0 and the outcome depends on the
\* scipy release: ok is that choice.
compute_stft_raises(window_size_samples, hop_samples, ok) ==
    \/ hop_samples > window_size_samples
    \/ (window_size_samples < 3 /\ ~ok)

\* STFTPlotter.update_plot on the table data: Warning.clear(), then the
\* checks, then compute_stft and the plot inside try / except Exception
STFT_update_plot_effect(data, window_size, hop_size, fs, ok) ==
    LET window_size_samples == stft_samples(window_size, fs)
        hop_samples         == stft_samples(hop_size, fs)
        check  == stft_check(hop_samples, window_size_samples, fs)
        call   == [op |-> "update_plot", window_size |-> window_size,
                   hop_size |-> hop_size, fs |-> fs,
                   window_size_samples |-> window_size_samples,
                   hop_samples |-> hop_samples, n |-> Len(data[1])]
    IN  IF check # None
        THEN /\ warnings' = {check[1]}
             /\ last' = call @@ [computed |-> FALSE, plotted |-> FALSE,
                                 outcome |-> check[1]]
        ELSE IF compute_stft_raises(window_size_samples, hop_samples, ok)
        THEN /\ warnings' = {"warning"}
             /\ last' = call @@ [computed |-> TRUE, plotted |-> FALSE,
                                 g_std |-> gaussian_std(window_size_samples),
                                 outcome |-> "warning"]
        ELSE /\ warnings' = {}
             /\ last' = call @@ [computed |-> TRUE, plotted |-> TRUE,
                                 g_std |-> gaussian_std(window_size_samples),
                                 outcome |-> "plotted"]

\* "Update Plot": update_plot does nothing without data
STFT_update_plot(window_size, hop_size, fs, ok) ==
    /\ widget = "STFT"
    /\ IF Truthy(time_series)
       THEN STFT_update_plot_effect(time_series, window_size, hop_size, fs, ok)
       ELSE /\ last' = [op |-> "update_plot", outcome |-> "noop"]
            /\ UNCHANGED warnings
    /\ UNCHANGED <<plotVars, plotterVars, widget, time_series, output, featureVars>>

\* @Inputs.data set_data: a truthy table is stored and plotted, a falsy one
\* clears self.data (the warnings stay)
STFT_set_data(data, window_size, hop_size, fs, ok) ==
    /\ widget = "STFT"
    /\ IF Truthy(data)
       THEN /\ time_series' = data
            /\ STFT_update_plot_effect(data, window_size, hop_size, fs, ok)
       ELSE /\ time_series' = None
            /\ last' = [op |-> "set_data", outcome |-> "cleared"]
            /\ UNCHANGED warnings
    /\ UNCHANGED <<plotVars, plotterVars, widget, output, featureVars>>

\* the settings: window and hop sizes in seconds, sampling rates in Hz
StftSizes == {<<-2, 1>>, <<1, 1>>, <<3, 2>>, <<2, 1>>, <<3, 1>>}
StftRates == {1, 2}

StftInit ==
    /\ widget = "STFT"
    /\ time_series = None
    /\ warnings = {}
    /\ output = None
    /\ last = [op |-> "init"]
    /\ selected_features = <<>>
    /\ feature_inputs = <<>>
    /\ enabled = {}
    /\ selection = None
    /\ current_feature = None
    /\ fft_data = None
    /\ selected_range = None
    /\ freqs = None
    /\ PlotterInit

\* ok is a choice only where the outcome of compute_stft depends on it
StftNext ==
    \E w \in StftSizes, h \in StftSizes, fs \in StftRates, ok \in BOOLEAN :
        /\ ok \/ stft_samples(w, fs) = 2
        /\ \/ \E data \in Buffers : STFT_set_data(data, w, h, fs, ok)
           \/ STFT_update_plot(w, h, fs, ok)

\* the STFT widget
SpecStft == StftInit /\ [][StftNext]_vars

-----------------------------------------------------------------------------
(* Properties of the STFT widget (checked under SpecStft).                 *)

\* update_plot ran its checks on a table in the last invocation
StftChecked == last.op = "update_plot" /\ last.outcome # "noop"

\* C14: update_plot calls compute_stft only when hop_samples >= 2 and
\* window_size_samples >= 2, each the truncation of seconds * fs; with a
\* smaller count it raises warning_incorrect_params and computes nothing.
C14_StftNeedsTwoSamples ==
    StftChecked =>
       /\ last.window_size_samples = stft_samples(last.window_size, last.fs)
       /\ last.hop_samples = stft_samples(last.hop_size, last.fs)
       /\ last.computed =>
              (last.hop_samples >= 2 /\ last.window_size_samples >= 2)
       /\ (last.hop_samples < 2 \/ last.window_size_samples < 2) =>
              /\ warnings = {"warning_incorrect_params"}
              /\ ~last.computed

\* C14 witness: a hop of 1.5 s at 1 Hz truncates to 1 sample while the
\* window has 3 samples: the warning is raised and nothing is computed
C14_Witness ==
    /\ StftChecked
    /\ last.hop_size = <<3, 2>> /\ last.fs = 1
    /\ last.hop_samples = 1
    /\ last.window_size_samples = 3
    /\ warnings = {"warning_incorrect_params"}
    /\ ~last.computed

\* C24 (as claimed): whenever update_plot accepts the settings and builds
\* the Gaussian window, its standard deviation is window_size_samples / 3
\* and strictly positive.
C24_GaussianStdPositive ==
    (StftChecked /\ last.computed) =>
       /\ last.g_std > 0
       /\ 3 * last.g_std = last.window_size_samples

-----------------------------------------------------------------------------
(* The EnvelopAnalysis widget.  The sampling rate is an integer (Hz, 0 is  *)
(* falsy), a position on the frequency axis a rational.                    *)

\* the 0-based indices that the slice [a:b] selects in an array of n
\* elements (negative bounds count from the end)
SliceIndices(n, a, b) ==
    LET norm(i) == IF i < 0 THEN (IF i + n < 0 THEN 0 ELSE i + n)
                   ELSE (IF i > n THEN n ELSE i)
    IN  {k \in 0..(n - 1) : norm(a) <= k /\ k < norm(b)}

\* the conversion with rounding to the nearest bin (halves upward) instead
\* of int()
band_index_round(cut, n, sampling_rate) ==
    Trunc(2 * cut[1] * n + cut[2] * sampling_rate, 2 * cut[2] * sampling_rate)

\* idxLow = int(lowcut / dfq) with dfq = 1.0 / (dt * n) = sampling_rate / n
band_index(cut, n, sampling_rate) ==
    Trunc(cut[1] * n, cut[2] * sampling_rate)

\* the bins of fft_data copied into D: D[idxLow:idxHi + 1] and
\* D[-idxHi:-idxLow + 1]; every other bin stays zero.  Slicing never raises.
kept_bins(n, idxLow, idxHi) ==
    SliceIndices(n, idxLow, idxHi + 1) \cup SliceIndices(n, -idxHi, -idxLow + 1)

\* np.abs(envelope_fft[:n // 2]): bin k of the spectrum of the envelope of
\* the signal rebuilt from the kept bins
EnvelopeBin(n, kept, k) == [n |-> n, kept |-> kept, k |-> k]

\* EnvelopAnalysis.update_plot: with a truthy table and a non-zero sampling
\* rate self.freqs becomes np.fft.fftfreq(n, d = 1 / sampling_rate)
EA_freqs(data, sampling_rate, old) ==
    IF Truthy(data) /\ sampling_rate # 0
    THEN fftfreq(Len(data[1]), <<sampling_rate, 1>>)
    ELSE old

\* @Inputs.time_series set_data: the table is stored as it is and plotted
EA_set_data(data, sampling_rate) ==
    /\ widget = "EnvelopAnalysis"
    /\ time_series' = data
    /\ freqs' = EA_freqs(data, sampling_rate, freqs)
    /\ last' = [op |-> "set_data"]
    /\ UNCHANGED <<plotterVars, widget, warnings, output, fft_data, selected_range,
                   featureVars>>

\* "Update Plot"
EA_update_plot(sampling_rate) ==
    /\ widget = "EnvelopAnalysis"
    /\ freqs' = EA_freqs(time_series, sampling_rate, freqs)
    /\ last' = [op |-> "update_plot"]
    /\ UNCHANGED <<plotterVars, widget, time_series, warnings, output, fft_data,
                   selected_range, featureVars>>

\* a <= b for rationals with positive denominators
RatLeq(a, b) == a[1] * b[2] <= b[1] * a[2]

\* the rectangle selector: onselect stores the sorted pair of the x
\* positions of press and release
onselect(eclick, erelease) ==
    /\ widget = "EnvelopAnalysis"
    /\ selected_range' = IF RatLeq(eclick, erelease)
                         THEN <<eclick, erelease>>
                         ELSE <<erelease, eclick>>
    /\ last' = [op |-> "onselect"]
    /\ UNCHANGED <<plotterVars, widget, time_series, warnings, output, fft_data, freqs,
                   featureVars>>

\* "Compute Envelope": compute_envelope.  Inside try / except Exception:
\* 1.0 / sampling_rate raises ZeroDivisionError for a rate of 0, and the
\* plot raises when self.freqs is None or self.freqs[:n // 2] has not
\* n // 2 elements; the table is sent after the plot.  Warnings are never
\* cleared.
compute_envelope(sampling_rate) ==
    /\ widget = "EnvelopAnalysis"
    /\ IF ~(Truthy(time_series) /\ selected_range # None)
       THEN /\ last' = [op |-> "compute_envelope", outcome |-> "noop"]
            /\ UNCHANGED <<warnings, output>>
       ELSE IF sampling_rate = 0
       THEN /\ warnings' = warnings \cup {"warning"}
            /\ last' = [op |-> "compute_envelope",
                        outcome |-> "ZeroDivisionError"]
            /\ UNCHANGED output
       ELSE LET n      == Len(time_series[1])
                idxLow == band_index(selected_range[1], n, sampling_rate)
                idxHi  == band_index(selected_range[2], n, sampling_rate)
                kept   == kept_bins(n, idxLow, idxHi)
                call   == [op |-> "compute_envelope", n |-> n,
                           sampling_rate |-> sampling_rate,
                           idxLow |-> idxLow, idxHi |-> idxHi, kept |-> kept]
            IN  IF freqs = None \/ Len(PySlice(freqs, 0, n \div 2)) # n \div 2
                THEN /\ warnings' = warnings \cup {"warning"}
                     /\ last' = call @@ [sent |-> FALSE, outcome |-> "plot_error"]
                     /\ UNCHANGED output
                ELSE /\ output' = Table([i \in 1..(n \div 2) |->
                                            EnvelopeBin(n, kept, i - 1)])
                     /\ last' = call @@ [sent |-> TRUE, outcome |-> "sent"]
                     /\ UNCHANGED warnings
    /\ UNCHANGED <<plotterVars, widget, time_series, fft_data, selected_range, freqs,
                   featureVars>>

\* sampling rates (Hz) and positions on the frequency axis (Hz)
EaRates == {0, 1, 2}
EaPositions == {<<0, 1>>, <<1, 4>>, <<1, 2>>, <<1, 1>>}

EaInit ==
    /\ widget = "EnvelopAnalysis"
    /\ time_series = None
    /\ warnings = {}
    /\ output = None
    /\ last = [op |-> "init"]
    /\ selected_features = <<>>
    /\ feature_inputs = <<>>
    /\ enabled = {}
    /\ selection = None
    /\ current_feature = None
    /\ fft_data = None
    /\ selected_range = None
    /\ freqs = None
    /\ PlotterInit

EaNext ==
    \/ \E data \in Buffers, r \in EaRates : EA_set_data(data, r)
    \/ \E r \in EaRates : EA_update_plot(r)
    \/ \E x1 \in EaPositions, x2 \in EaPositions : onselect(x1, x2)
    \/ \E r \in EaRates : compute_envelope(r)

\* the EnvelopAnalysis widget
SpecEnv == EaInit /\ [][EaNext]_vars

-----------------------------------------------------------------------------
(* Properties of the EnvelopAnalysis widget (checked under SpecEnv).       *)

\* compute_envelope converted the selected band to bin indices in the last
\* invocation
BandConverted ==
    /\ last.op = "compute_envelope"
    /\ last.outcome \in {"plot_error", "sent"}

\* C15 (as claimed): compute_envelope ends with an error and sends nothing
\* whenever the selected band is empty (idxHi <= idxLow) or its upper bin
\* index exceeds N / 2.
C15_BadBandRejected ==
    (BandConverted /\ (last.idxHi <= last.idxLow \/ 2 * last.idxHi > last.n))
    => /\ ~last.sent
       /\ "warning" \in warnings

\* C22 (as claimed): for a band with 0 <= idxLow <= idxHi <= N / 2 the bins
\* compute_envelope keeps are exactly idxLow..idxHi and the mirrored bins
\* N - idxHi..N - idxLow (bin N being bin 0), so that bin k, 1 <= k <= N - 1,
\* is kept if and only if bin N - k is kept.
C22_KeptBinsHermitian ==
    (/\ BandConverted
     /\ 0 <= last.idxLow /\ last.idxLow <= last.idxHi
     /\ 2 * last.idxHi <= last.n)
    => /\ last.kept =
             {k \in 0..(last.n - 1) :
                 \/ last.idxLow <= k /\ k <= last.idxHi
                 \/ last.n - last.idxHi <= k /\ k <= last.n - last.idxLow}
       /\ \A k \in 1..(last.n - 1) :
             (k \in last.kept) <=> ((last.n - k) \in last.kept)

\* idx is the bin nearest to cut / df, df = sampling_rate / n
NearestBin(idx, cut, n, sampling_rate) ==
    LET d == 2 * (idx * cut[2] * sampling_rate - cut[1] * n)
    IN  (IF d < 0 THEN -d ELSE d) <= cut[2] * sampling_rate

\* idx is the bin at or below cut / df: idx * df <= cut < (idx + 1) * df
BinAtOrBelow(idx, cut, n, sampling_rate) ==
    /\ idx * cut[2] * sampling_rate <= cut[1] * n
    /\ cut[1] * n < (idx + 1) * cut[2] * sampling_rate

\* C23 (as claimed): compute_envelope converts the band edges to the nearest
\* bin, idxLow = round(lowcut / df) and idxHi = round(highcut / df) with
\* df = sampling_rate / N.
C23_BandEdgesRounded ==
    BandConverted =>
       /\ NearestBin(last.idxLow, selected_range[1], last.n, last.sampling_rate)
       /\ NearestBin(last.idxHi, selected_range[2], last.n, last.sampling_rate)

\* C23 (amended): compute_envelope converts the non-negative band edges by
\* truncation: idxLow and idxHi are the bins at or below lowcut / df and
\* highcut / df, also where the quotient has a fractional part >= 0.5.
C23_BandEdgesTruncated ==
    BandConverted =>
       /\ BinAtOrBelow(last.idxLow, selected_range[1], last.n,
                       last.sampling_rate)
       /\ BinAtOrBelow(last.idxHi, selected_range[2], last.n,
                       last.sampling_rate)

\* C23 witness: an envelope was sent for a band whose upper edge lies three
\* quarters of a bin or more above the bin it was converted to
C23_Witness ==
    /\ BandConverted
    /\ last.outcome = "sent"
    /\ 4 * (selected_range[2][1] * last.n
              - last.idxHi * selected_range[2][2] * last.sampling_rate)
           >= 3 * selected_range[2][2] * last.sampling_rate

-----------------------------------------------------------------------------
(* FFTPlotter and TimeSeriesPlotter: the inputs kept per link id.          *)

\* a table on a plotter input: the names of data.domain.attributes and
\* len(data.X)
PlotTable(attributes, rows) == <<[attributes |-> attributes, rows |-> rows]>>

\* the tables delivered: one named column, one unnamed column, two columns,
\* and one named column without rows
PlotTables ==
    { PlotTable(<<"a">>, 2), PlotTable(<<"">>, 2), PlotTable(<<"a", "b">>, 2),
      PlotTable(<<"a">>, 0) }

\* the sampling rates delivered (floats, as rationals)
PlotRates == { <<1, 1>>, <<2, 1>> }

\* the keys (first components) of a list of (id[0], value) pairs
list_ids(list) == { list[k][1] : k \in 1..Len(list) }

\* a removal that keeps every entry
remove_entry_none(list, key) == list

\* [d for d in list if d[0] != id[0]]
remove_entry(list, key) == SelectSeq(list, LAMBDA d : d[1] # key)

\* the entry with this key replaced in place, or appended when there is none
replace_or_append(list, key, value) ==
    LET replaced == [k \in 1..Len(list) |->
                        IF list[k][1] # key THEN list[k] ELSE <<key, value>>]
    IN  IF key \in list_ids(replaced) THEN replaced
        ELSE Append(replaced, <<key, value>>)

\* f"Data {idx + 1}" for the entry at position k (idx = k - 1)
DataLabel(k) == <<"Data 1", "Data 2", "Data 3", "Data 4", "Data 5", "Data 6">>[k]

\* the attribute's name, or the label of the position when it has none
column_name(data, k) ==
    IF data[1].attributes[1] # "" THEN data[1].attributes[1] ELSE DataLabel(k)

\* data_ids & rate_ids
common_ids(dl, rl) == list_ids(dl) \cap list_ids(rl)

\* the positions of data_list whose id is in ids, in list order
listed_positions(dl, ids) ==
    SelectSeq([k \in 1..Len(dl) |-> k], LAMBDA k : dl[k][1] \in ids)

\* input_filter after clear() and one unselected item per listed entry
filter_items(dl, ids) ==
    LET pos == listed_positions(dl, ids)
    IN  [j \in 1..Len(pos) |->
            [text |-> column_name(dl[pos[j]][2], pos[j]), selected |-> FALSE]]

\* FFTPlotter.update_input_filter: the entries that also have a rate
FP_update_input_filter(dl, rl) == filter_items(dl, common_ids(dl, rl))

\* TimeSeriesPlotter.update_input_filter: every entry
TSP_update_input_filter(dl) == filter_items(dl, list_ids(dl))

\* the texts of input_filter.selectedItems()
selected_items ==
    { input_filter[k].text : k \in { j \in 1..Len(input_filter) :
                                         input_filter[j].selected } }

\* get_selected_data: the positions of data_list whose column name is among
\* the selected texts (and, in FFTPlotter, whose id has a rate)
get_selected_data(ids) ==
    SelectSeq(listed_positions(data_list, ids),
              LAMBDA k : column_name(data_list[k][2], k) \in selected_items)

\* @Inputs.data FFTPlotter.set_data: a one-column table replaces the entry
\* of id[0] or is appended, a table of another width raises missing_column
\* and leaves the list, None removes the entry; then update_input_filter
FP_set_data(data, id) ==
    /\ widget = "FFTPlotter"
    /\ LET dl == IF data = None THEN remove_entry(data_list, id[1])
                 ELSE IF Len(data[1].attributes) = 1
                 THEN replace_or_append(data_list, id[1], data)
                 ELSE data_list
       IN  /\ data_list' = dl
           /\ input_filter' = FP_update_input_filter(dl, sampling_rate_list)
    /\ warnings' = IF data = None THEN warnings \cup {"invalid_data"}
                   ELSE IF Len(data[1].attributes) = 1 THEN {}
                   ELSE {"missing_column"}
    /\ latest' = [latest EXCEPT !.data[id] =
                      IF data = None THEN "None" ELSE "value"]
    /\ last' = [op |-> "set_data", id |-> id, data |-> data]
    /\ UNCHANGED <<plotVars, widget, time_series, output, featureVars,
                   sampling_rate_list>>

\* @Inputs.sampling_rate FFTPlotter.set_sampling_rate: a float replaces the
\* entry of id[0] or is appended, None removes it and raises
\* missing_sampling_rate; then update_input_filter
FP_set_sampling_rate(rate, id) ==
    /\ widget = "FFTPlotter"
    /\ LET rl == IF rate # None
                 THEN replace_or_append(sampling_rate_list, id[1], rate)
                 ELSE remove_entry(sampling_rate_list, id[1])
       IN  /\ sampling_rate_list' = rl
           /\ input_filter' = FP_update_input_filter(data_list, rl)
    /\ warnings' = IF rate # None THEN warnings
                   ELSE warnings \cup {"missing_sampling_rate"}
    /\ latest' = [latest EXCEPT !.rate[id] =
                      IF rate = None THEN "None" ELSE "value"]
    /\ last' = [op |-> "set_sampling_rate", id |-> id, rate |-> rate]
    /\ UNCHANGED <<plotVars, widget, time_series, output, featureVars,
                   data_list>>

\* d[0] == id in TimeSeriesPlotter.set_data: d[0] is a stored id[0] and id
\* the whole tuple, which Python never finds equal
key_equals_id(key, id) == FALSE

\* longest data_list of TimeSeriesPlotter (it only grows)
MaxPlotLen == 3

\* @Inputs.data TimeSeriesPlotter.set_data: a one-column table is appended
\* under id[0], a table of another width raises missing_column, None keeps
\* the entries d with d[0] != id; then update_input_filter
TSP_set_data(data, id) ==
    /\ widget = "TimeSeriesPlotter"
    /\ Len(data_list) < MaxPlotLen
    /\ LET dl == IF data = None
                 THEN SelectSeq(data_list, LAMBDA d : ~key_equals_id(d[1], id))
                 ELSE IF Len(data[1].attributes) = 1
                 THEN Append(data_list, <<id[1], data>>)
                 ELSE data_list
       IN  /\ data_list' = dl
           /\ input_filter' = TSP_update_input_filter(dl)
    /\ warnings' = IF data = None THEN warnings
                   ELSE IF Len(data[1].attributes) = 1 THEN {}
                   ELSE warnings \cup {"missing_column"}
    /\ latest' = [latest EXCEPT !.data[id] =
                      IF data = None THEN "None" ELSE "value"]
    /\ last' = [op |-> "set_data", id |-> id, data |-> data]
    /\ UNCHANGED <<plotVars, widget, time_series, output, featureVars,
                   sampling_rate_list>>

\* the user clicks item k of input_filter (MultiSelection: a click toggles)
ItemToggled(k) ==
    /\ widget \in {"FFTPlotter", "TimeSeriesPlotter"}
    /\ k \in 1..Len(input_filter)
    /\ input_filter' = [input_filter EXCEPT ![k].selected = ~@]
    /\ last' = [op |-> "select_item"]
    /\ UNCHANGED <<plotVars, widget, time_series, warnings, output,
                   featureVars, data_list, sampling_rate_list, latest>>

\* the ids of the entries at these positions of data_list
plotted_ids(positions) ==
    [j \in 1..Len(positions) |-> data_list[positions[j]][1]]

\* "Update Plot" FFTPlotter.update_plot: draws the selected entries that have
\* a rate; with nothing to draw the canvas is left as it is.  fftfreq raises
\* for a table without rows, after the lines before it were plotted.
FP_update_plot ==
    /\ widget = "FFTPlotter"
    /\ LET sel == get_selected_data(common_ids(data_list, sampling_rate_list))
           bad == { j \in 1..Len(sel) :
                       fftfreq_raises(data_list[sel[j]][2][1].rows * 2) }
           done == IF bad = {} THEN Len(sel)
                   ELSE (CHOOSE j \in bad : \A i \in bad : j <= i) - 1
       IN  IF Len(data_list) > 0 /\ Len(sel) > 0
           THEN /\ warnings' = {}
                /\ last' = [op |-> "update_plot",
                            plotted |-> plotted_ids(SubSeq(sel, 1, done)),
                            outcome |-> IF bad = {} THEN "drawn"
                                        ELSE "ZeroDivisionError"]
           ELSE /\ last' = [op |-> "update_plot", plotted |-> <<>>,
                            outcome |-> "noop"]
                /\ UNCHANGED warnings
    /\ UNCHANGED <<plotVars, plotterVars, widget, time_series, output,
                   featureVars>>

\* "Update Plot" TimeSeriesPlotter.update_plot: clears the axes and draws the
\* selected entries
TSP_update_plot ==
    /\ widget = "TimeSeriesPlotter"
    /\ last' = [op |-> "update_plot",
                plotted |-> plotted_ids(get_selected_data(list_ids(data_list))),
                outcome |-> "drawn"]
    /\ UNCHANGED <<plotVars, plotterVars, widget, time_series, warnings, output,
                   featureVars>>

PlotInit ==
    /\ widget \in {"FFTPlotter", "TimeSeriesPlotter"}
    /\ time_series = None
    /\ warnings = {}
    /\ output = None
    /\ last = [op |-> "init"]
    /\ selected_features = <<>>
    /\ feature_inputs = <<>>
    /\ enabled = {}
    /\ selection = None
    /\ current_feature = None
    /\ fft_data = None
    /\ selected_range = None
    /\ freqs = None
    /\ PlotterInit

PlotNext ==
    \/ \E data \in PlotTables \cup {None}, id \in InputIds : FP_set_data(data, id)
    \/ \E rate \in PlotRates \cup {None}, id \in InputIds :
           FP_set_sampling_rate(rate, id)
    \/ \E data \in PlotTables \cup {None}, id \in InputIds : TSP_set_data(data, id)
    \/ \E k \in 1..MaxPlotLen : ItemToggled(k)
    \/ FP_update_plot
    \/ TSP_update_plot

\* the two plotter widgets
SpecPlot == PlotInit /\ [][PlotNext]_vars

\* the ids that have more than one entry in a list
duplicated_ids(list) ==
    { list[i][1] : i \in { k \in 1..Len(list) :
                              \E j \in 1..Len(list) :
                                  j # k /\ list[j][1] = list[k][1] } }

\* the input ids whose latest value on the data (rate) input was None
ids_cleared(kind) == { id[1] : id \in { i \in InputIds : latest[kind][i] = "None" } }

C30_OneEntryPerId ==
    widget = "TimeSeriesPlotter" =>
       /\ duplicated_ids(data_list) = {}
       /\ ids_cleared("data") \cap list_ids(data_list) = {}

-----------------------------------------------------------------------------
(* The warnings that stay on the widget.                                   *)

\* C27 (as claimed): the warnings shown are those of the most recent
\* invocation: after an FFT commit or an RMS commit that sent its result
\* without raising a warning, no earlier warning is still set.
C27_NoStaleWarning ==
    /\ (widget = "FFT" /\ last.op = "commit" /\ last.outcome = "sent"
            /\ last.raised = {}) => warnings = {}
    /\ (widget = "RMS" /\ last.op = "commit" /\ last.outcome = "sent"
            /\ last.n >= last.segment_samples) => warnings = {}

-----------------------------------------------------------------------------
(* The outcome of one invocation, for every widget (checked under          *)
(* SpecFilter; it is stated on the record of the last invocation, so it    *)
(* can be evaluated under the other specifications as well).               *)

\* the last handler invocation was a public operation that ran on a table
OperationRan ==
    CASE widget = "Butterworth" -> FilterRan
      [] widget = "FFT" -> last.op = "commit" /\ last.outcome # "sent_None"
      [] widget = "RMS" -> last.op = "commit" /\ last.outcome # "sent_None"
      [] widget = "STFT" -> StftChecked
      [] widget = "EnvelopAnalysis" ->
             last.op = "compute_envelope" /\ last.outcome # "noop"
      [] OTHER -> ComputeRan

\* that invocation produced its result (a table sent, a spectrogram drawn)
ResultProduced ==
    CASE widget \in {"Butterworth", "FFT"} -> last.sent
      [] widget = "STFT" -> last.plotted
      [] OTHER -> last.outcome = "sent"

\* the error kinds that invocation reported: the warnings it raised, and the
\* exception it ended in when that was not caught
ErrorsReported ==
    CASE widget \in {"Butterworth", "STFT"} -> warnings
      [] widget = "FFT" ->
             last.raised \cup ({last.outcome} \cap {"ZeroDivisionError"})
      [] widget = "RMS" ->
             (IF last.outcome = "warning" THEN {"warning"} ELSE {})
             \cup (IF /\ ~last.bad_text
                      /\ WindowSize(last.segment_size, last.sampling_rate)
                             > last.n
                   THEN {"window_size_large"} ELSE {})
      [] widget = "EnvelopAnalysis" ->
             IF last.outcome = "sent" THEN {} ELSE {"warning"}
      [] OTHER ->
             warnings \cup ({last.outcome} \cap {"ValueError", "TableError"})

\* C19 (as claimed): every invocation of a public operation ends either
\* with its result and no error reported, or with exactly one error kind
\* reported and no result.
C19_ResultOrOneError ==
    OperationRan =>
        \/ ResultProduced /\ ErrorsReported = {}
        \/ ~ResultProduced /\ Cardinality(ErrorsReported) = 1

====
